---------------------------- MODULE Spec2Model ----------------------------
(***************************************************************************)
(* Model of src/src/index.js: the route-rendering pipeline of              *)
(* vercel-native-ssr (handler -> renderRoute -> parseRouteFile,            *)
(* executeScript, renderTemplate -> loadPartials).                         *)
(*                                                                         *)
(* Strings that the code inspects character by character (URLs, route      *)
(* paths, file names) are sequences of one-character strings.  Route-file  *)
(* text is a sequence of lexical tokens (the four markers, white space,    *)
(* script statements, template fragments); messages are sequences of       *)
(* string pieces, concatenated as the code concatenates them.              *)
(***************************************************************************)
EXTENDS Integers, Sequences, FiniteSets, TLC

VARIABLES
    req,            \* per request: the routing hints of the request object
    file,           \* per request: what readFile finds at the route path
    pc,             \* per request: where the handler's continuation stands
    routePath,      \* per request: handler's routePath
    parsed,         \* per request: result of parseRouteFile
    exports,        \* per request: the exports object of executeScript
    ip,             \* per request: next statement of the suspended script
    currentPath,    \* per request: renderRoute's currentPath local
    err,            \* per request: message of the error being propagated
    trace,          \* per request: the stages entered so far
    res,            \* per request: the calls made on the response object
    partialsLoaded, \* module-level flag (line 10)
    registered,     \* Handlebars' partial table: name -> content
    regCount,       \* number of registerPartial calls per partial file
    partialsDir,    \* what the partials directory holds, or that the
                    \* working directory is gone (environment)
    lp,             \* per caller of renderTemplate: position in loadPartials
    lpStartedLoaded,\* per caller: partialsLoaded when its current call began
    lpIO,           \* per caller: I/O operations its current call issued
    html,           \* per caller: result of renderTemplate
    data,           \* per request: renderRoute's data
    settled         \* per request: how the promise it awaits has settled

vars == <<req, file, pc, routePath, parsed, exports, ip, currentPath, err,
          trace, res, partialsLoaded, registered, regCount, partialsDir,
          lp, lpStartedLoaded, lpIO, html, data, settled>>

pipelineVars == <<req, file, pc, routePath, parsed, exports, ip, currentPath,
                  err, trace, res, data, settled>>

partialVars == <<partialsLoaded, registered, regCount, partialsDir, lp,
                 lpStartedLoaded, lpIO, html>>

(***************************************************************************)
(* Bounds of the model.                                                    *)
(***************************************************************************)
NumReqs == 2
MaxTokens == 4
MaxChunks == 3
NumCallers == 2
MaxCalls == 2

Req == 1..NumReqs
Caller == 1..NumCallers

(***************************************************************************)
(* JavaScript string operations used by the code, on character sequences.  *)
(* Indices are 0-based as in JavaScript.                                   *)
(***************************************************************************)
Min(S) == CHOOSE x \in S : \A y \in S : x <= y

Max(S) == CHOOSE x \in S : \A y \in S : x >= y

OccursAt(s, p, i) ==
    /\ i >= 0
    /\ i + Len(p) <= Len(s)
    /\ SubSeq(s, i + 1, i + Len(p)) = p

indexOfFrom(s, p, from) ==
    LET hits == {i \in from..Len(s) : OccursAt(s, p, i)}
    IN  IF hits = {} THEN -1 ELSE Min(hits)

indexOf(s, p) == indexOfFrom(s, p, 0)

startsWith(s, p) == OccursAt(s, p, 0)

endsWith(s, p) == OccursAt(s, p, Len(s) - Len(p))

slice(s, n) == SubSeq(s, n + 1, Len(s))

substring(s, a, b) == SubSeq(s, a + 1, b)

\* String.prototype.replace with a string pattern: the first occurrence only.
replace(s, p, r) ==
    LET i == indexOf(s, p)
    IN  IF i = -1 THEN s
        ELSE SubSeq(s, 1, i) \o r \o SubSeq(s, i + Len(p) + 1, Len(s))

RECURSIVE join(_, _)
join(segs, sep) ==
    IF Len(segs) = 0 THEN <<>>
    ELSE IF Len(segs) = 1 THEN segs[1]
    ELSE segs[1] \o sep \o join(Tail(segs), sep)

(***************************************************************************)
(* String literals of the code.                                            *)
(***************************************************************************)
DotHtml == <<".", "h", "t", "m", "l">>

DotHbs == <<".", "h", "b", "s">>

ApiSlash == <<"/", "a", "p", "i", "/">>

Api == <<"/", "a", "p", "i">>

IndexHtml == <<"i", "n", "d", "e", "x", ".", "h", "t", "m", "l">>

SlashIndex == <<"/", "i", "n", "d", "e", "x">>

(***************************************************************************)
(* handler, lines 166-208: the route path of a request.  A request carries *)
(* req.query.path (absent, a string, or an array of segments) and req.url  *)
(* (absent or a string).                                                   *)
(***************************************************************************)
NoHint == [kind |-> "none", segs |-> <<>>, chars |-> <<>>]

ArrayHint(segs) == [kind |-> "array", segs |-> segs, chars |-> <<>>]

StringHint(chars) == [kind |-> "string", segs |-> <<>>, chars |-> chars]

\* lines 174-195: the else-if branch taken for a non-empty req.url
StripUrl(url) ==
    LET queryIndex == indexOf(url, <<"?">>)
        u1 == IF queryIndex # -1 THEN substring(url, 0, queryIndex) ELSE url
        u2 == IF startsWith(u1, ApiSlash) THEN slice(u1, 5)
              ELSE IF u1 = Api THEN <<>>
              ELSE u1
    IN  IF startsWith(u2, <<"/">>) THEN slice(u2, 1) ELSE u2

\* line 168: is the catch-all array used?  (JavaScript: a non-empty array)
UsesPathArrayUrlFirst(rq) ==
    /\ rq.path.kind = "array"
    /\ Len(rq.path.segs) > 0
    /\ ~(rq.url.kind = "string" /\ rq.url.chars # <<>>)

UsesPathArray(rq) ==
    /\ rq.path.kind = "array"
    /\ Len(rq.path.segs) > 0

\* lines 168-198
RawRoute(rq) ==
    IF UsesPathArray(rq) THEN join(rq.path.segs, <<"/">>)
    ELSE IF rq.url.kind = "string" /\ rq.url.chars # <<>>
         THEN StripUrl(rq.url.chars)
    ELSE <<>>

\* lines 200-208
AddExtensionAlways(p) == IF p = <<>> THEN IndexHtml ELSE p \o DotHtml

AddExtension(p) ==
    IF p = <<>> THEN IndexHtml
    ELSE IF ~endsWith(p, DotHtml) THEN p \o DotHtml
    ELSE p

ResolveRoute(rq) == AddExtension(RawRoute(rq))

\* renderRoute, lines 144-147
CurrentPath(route) ==
    LET c == <<"/">> \o replace(route, DotHtml, <<>>)
    IN  IF c = SlashIndex THEN <<"/">> ELSE c


(***************************************************************************)
(* Route-file text: a sequence of tokens.                                  *)
(***************************************************************************)
ScriptOpen == "<script>"

ScriptClose == "</script>"

TemplateOpen == "<template>"

TemplateClose == "</template>"

Ws == {" ", "\n"}

\* script statements
StmtTitle == "exports.title = 'Hi';"

StmtPath == "exports.currentPath = '/mine';"

StmtFetch == "await fetch('https://api.example.com/data');"

StmtThrow == "throw new Error('boom');"

StmtReturn == "return;"

StmtThrowString == "throw 'plain';"

\* template fragments
TplTitle == "{{title}}"

TplPath == "{{currentPath}}"

TplMenu == "{{> menu}}"

TplBad == "{{#if title}}"

(***************************************************************************)
(* parseRouteFile, lines 20-32.  /<script>([\s\S]*?)<\/script>/ matches    *)
(* at the first start marker that has an end marker after it, up to the    *)
(* first such end marker.                                                  *)
(***************************************************************************)
NoMatch == [found |-> FALSE, inner |-> <<>>]

MatchGreedy(content, open, close) ==
    LET i == indexOf(content, <<open>>)
        js == {k \in 0..Len(content) : k > i /\ OccursAt(content, <<close>>, k)}
    IN  IF i = -1 \/ js = {} THEN NoMatch
        ELSE [found |-> TRUE, inner |-> SubSeq(content, i + 2, Max(js))]

Match(content, open, close) ==
    LET i == indexOf(content, <<open>>)
        j == IF i = -1 THEN -1 ELSE indexOfFrom(content, <<close>>, i + 1)
    IN  IF i = -1 \/ j = -1 THEN NoMatch
        ELSE [found |-> TRUE, inner |-> SubSeq(content, i + 2, j)]

RECURSIVE trimStart(_)
trimStart(s) ==
    IF s # <<>> /\ Head(s) \in Ws THEN trimStart(Tail(s)) ELSE s

RECURSIVE trimEnd(_)
trimEnd(s) ==
    IF s # <<>> /\ s[Len(s)] \in Ws THEN trimEnd(SubSeq(s, 1, Len(s) - 1))
    ELSE s

trim(s) == trimEnd(trimStart(s))

MalformedMessage ==
    <<"Route file must contain both <script> and <template> sections">>

\* line 24 with && in place of ||
SectionsMissingBoth(scriptMatch, templateMatch) ==
    ~scriptMatch.found /\ ~templateMatch.found

\* line 24
SectionsMissing(scriptMatch, templateMatch) ==
    ~scriptMatch.found \/ ~templateMatch.found

\* lines 20-32: each of the two matches is taken once (lines 21-22), then
\* tested (line 24) and trimmed (lines 28-31)
parseRouteFile(content) ==
    CHOOSE result \in
        {IF SectionsMissing(scriptMatch, templateMatch)
         THEN [ok |-> FALSE, script |-> <<>>, template |-> <<>>,
               msg |-> MalformedMessage]
         ELSE [ok |-> TRUE, script |-> trim(scriptMatch.inner),
               template |-> trim(templateMatch.inner), msg |-> <<>>] :
            scriptMatch \in {Match(content, ScriptOpen, ScriptClose)},
            templateMatch \in {Match(content, TemplateOpen, TemplateClose)}} :
        TRUE

(***************************************************************************)
(* executeScript, lines 37-73.  exports maps a field to whether the script *)
(* assigned it and to what.                                                *)
(***************************************************************************)
Fields == {"title", "currentPath"}

Unset == [set |-> FALSE, val |-> <<>>]

Value(v) == [set |-> TRUE, val |-> v]

EmptyExports == [f \in Fields |-> Unset]

Statements ==
    {StmtTitle, StmtPath, StmtFetch, StmtThrow, StmtReturn, StmtThrowString}

\* Tokens new Function accepts in a function body (line 66): statements,
\* white space, and {{title}} or {{currentPath}}, which JavaScript reads as
\* nested blocks around an identifier.
Accepted == Statements \cup Ws \cup {TplTitle, TplPath}

Compiles(script) == \A i \in 1..Len(script) : script[i] \in Accepted

SyntaxMessage(script) ==
    LET bad == Min({i \in 1..Len(script) : script[i] \notin Accepted})
    IN  IF script[bad] = TplMenu THEN <<"Unexpected token '>'">>
        ELSE IF script[bad] = TplBad
        THEN <<"Private field '#if' must be declared in an enclosing class">>
        ELSE <<"Unexpected token '<'">>

\* line 71, `error.message`: the message of a thrown Error, and undefined,
\* interpolated as the text "undefined", for a thrown string
Thrown(isError, text) == [isError |-> isError, text |-> text]
MessageOf(thrown) == IF thrown.isError THEN thrown.text ELSE <<"undefined">>

\* The script body from statement i on, up to its next suspension or its end.
RECURSIVE RunFrom(_, _, _)
RunFrom(script, i, e) ==
    IF i > Len(script)
    THEN [status |-> "done", ip |-> i, exports |-> e, msg |-> <<>>]
    ELSE LET t == script[i]
         IN  CASE t = StmtTitle ->
                    RunFrom(script, i + 1, [e EXCEPT !["title"] = Value(<<"Hi">>)])
               [] t = StmtPath ->
                    RunFrom(script, i + 1,
                            [e EXCEPT !["currentPath"] = Value(<<"/mine">>)])
               [] t = StmtFetch ->
                    [status |-> "await", ip |-> i + 1, exports |-> e, msg |-> <<>>]
               [] t = StmtThrow ->
                    [status |-> "throw", ip |-> i, exports |-> e,
                     msg |-> MessageOf(Thrown(TRUE, <<"boom">>))]
               [] t = StmtThrowString ->
                    [status |-> "throw", ip |-> i, exports |-> e,
                     msg |-> MessageOf(Thrown(FALSE, <<"plain">>))]
               [] t = StmtReturn ->
                    [status |-> "return", ip |-> i, exports |-> e, msg |-> <<>>]
               [] t = TplTitle ->
                    [status |-> "throw", ip |-> i, exports |-> e,
                     msg |-> <<"title is not defined">>]
               [] t = TplPath ->
                    [status |-> "throw", ip |-> i, exports |-> e,
                     msg |-> <<"currentPath is not defined">>]
               [] OTHER -> RunFrom(script, i + 1, e)

\* line 69: the async function's value is exports, or undefined after an
\* early return, which `result || {}` turns into a new empty object
ScriptResult(run) ==
    IF run.status = "return" THEN EmptyExports ELSE run.exports

\* line 71
WrapScriptError(msg) == <<"Error executing script: ">> \o msg

FetchFailedMessage == <<"fetch failed">>

(***************************************************************************)
(* Handlebars.compile(templateSource)(data), lines 122-123, with the       *)
(* partials registered so far.  The engine is a black box for: text,       *)
(* {{field}} interpolation, {{> name}} partial inclusion, and a parse      *)
(* error for an unclosed block.                                            *)
(***************************************************************************)
MenuName == <<"m", "e", "n", "u">>

RECURSIVE RenderTokens(_, _, _)
RenderTokens(template, d, partials) ==
    IF template = <<>> THEN <<>>
    ELSE LET t == Head(template)
             rest == RenderTokens(Tail(template), d, partials)
         IN  CASE t = TplTitle ->
                    (IF d["title"].set THEN d["title"].val ELSE <<>>) \o rest
               [] t = TplPath ->
                    (IF d["currentPath"].set THEN d["currentPath"].val
                     ELSE <<>>) \o rest
               [] t = TplMenu ->
                    RenderTokens(partials[MenuName], d, partials) \o rest
               [] OTHER -> <<t>> \o rest

TemplateHas(template, t) == \E i \in 1..Len(template) : template[i] = t

Render(template, d, partials) ==
    IF TemplateHas(template, TplBad)
    THEN [ok |-> FALSE, out |-> <<>>,
          msg |-> <<"Parse error on line 1">>]
    ELSE IF TemplateHas(template, TplMenu) /\ MenuName \notin DOMAIN partials
    THEN [ok |-> FALSE, out |-> <<>>,
          msg |-> <<"The partial menu could not be found">>]
    ELSE [ok |-> TRUE, out |-> RenderTokens(template, d, partials),
          msg |-> <<>>]


\* line 39 with one exports object kept for all requests
StartScriptShared(script) ==
    LET shared == [f \in Fields |->
                     IF \E r \in Req : exports[r][f].set
                     THEN exports[CHOOSE r \in Req : exports[r][f].set][f]
                     ELSE Unset]
    IN  IF Compiles(script) THEN RunFrom(script, 1, shared)
        ELSE [status |-> "syntax", ip |-> 1, exports |-> shared,
              msg |-> SyntaxMessage(script)]

\* lines 39 and 53-67: compile the wrapped script and run it, on a new empty
\* exports object, to its first suspension; new Function (line 66) throws
\* the SyntaxError of a script that does not compile
StartScript(script) ==
    IF Compiles(script) THEN RunFrom(script, 1, EmptyExports)
    ELSE [status |-> "syntax", ip |-> 1, exports |-> EmptyExports,
          msg |-> SyntaxMessage(script)]

(***************************************************************************)
(* renderRoute, lines 129-158, and handler, lines 163-220.                 *)
(***************************************************************************)
\* what readFile (line 134) finds at the route path: nothing, a path
\* through a regular file, a directory, or a file with its content
Missing == [exists |-> FALSE, content |-> <<>>, error |-> "ENOENT"]

NotADirectory == [exists |-> FALSE, content |-> <<>>, error |-> "ENOTDIR"]

IsADirectory == [exists |-> FALSE, content |-> <<>>, error |-> "EISDIR"]

\* the working directory of the process has been removed: process.cwd()
\* (line 132) throws before readFile is called
NoCwd == [exists |-> FALSE, content |-> <<>>, error |-> "uv_cwd"]

\* the message process.cwd() throws with (lines 84 and 132)
CwdErrorMessage == <<"ENOENT: no such file or directory, uv_cwd">>

File(content) == [exists |-> TRUE, content |-> content, error |-> "none"]

\* process.cwd() of line 132: the directory the process runs in
Cwd == <<"/", "a", "p", "p">>

Routes == <<"r", "o", "u", "t", "e", "s">>

\* the parts of a path between its slashes
split(p) ==
    LET slashes == {i \in 1..Len(p) : p[i] = "/"}
        cut(k) == IF k = 0 THEN 0
                  ELSE IF k > Cardinality(slashes) THEN Len(p) + 1
                  ELSE CHOOSE i \in slashes :
                           Cardinality({j \in slashes : j <= i}) = k
    IN  [k \in 1..(Cardinality(slashes) + 1) |->
            SubSeq(p, cut(k - 1) + 1, cut(k) - 1)]

\* normalizeString of path.normalize on the parts of an absolute path: empty
\* parts and "." are dropped, ".." drops the part before it
RECURSIVE normalizeString(_, _)
normalizeString(parts, kept) ==
    IF parts = <<>> THEN kept
    ELSE IF Head(parts) = <<>> \/ Head(parts) = <<".">>
    THEN normalizeString(Tail(parts), kept)
    ELSE IF Head(parts) = <<".", ".">>
    THEN normalizeString(Tail(parts),
                   IF kept = <<>> THEN <<>> ELSE SubSeq(kept, 1, Len(kept) - 1))
    ELSE normalizeString(Tail(parts), Append(kept, Head(parts)))

\* path.normalize of an absolute path: the parts are normalised, and a
\* separator the path ended in is kept unless nothing but the root is left
normalize(p) ==
    CHOOSE out \in
        {IF kept # <<>> /\ p[Len(p)] = "/"
         THEN <<"/">> \o join(kept, <<"/">>) \o <<"/">>
         ELSE <<"/">> \o join(kept, <<"/">>) :
            kept \in {normalizeString(parts, <<>>) : parts \in {split(p)}}} :
        TRUE

\* an argument path.join does not skip
NonEmpty(arg) == arg # <<>>

\* line 132: path.join(process.cwd(), 'routes', routePath): the arguments
\* that are not empty, joined with "/" and normalised
filePath(route) ==
    CHOOSE opened \in
        {normalize(joined) :
            joined \in {join(SelectSeq(<<Cwd, Routes, route>>, NonEmpty),
                             <<"/">>)}} :
        TRUE

\* the message readFile rejects with (line 134)
ReadErrorMessage(code, route) ==
    IF code = "ENOENT"
    THEN <<"ENOENT: no such file or directory, open '">> \o filePath(route)
             \o <<"'">>
    ELSE IF code = "ENOTDIR"
    THEN <<"ENOTDIR: not a directory, open '">> \o filePath(route) \o <<"'">>
    ELSE <<"EISDIR: illegal operation on a directory, read">>

\* line 156
WrapRenderError(route, msg) ==
    <<"Failed to render route ">> \o route \o <<": ">> \o msg

\* { ...data, currentPath } of line 149
Spread(d, cp) == [d EXCEPT !["currentPath"] = Value(cp)]

\* lines 140 and 149: data is declared const, so the assignment of the
\* merged object to it throws a TypeError after the spread is evaluated
MergeData(d, cp) ==
    [threw |-> TRUE, msg |-> <<"Assignment to constant variable.">>,
     data |-> d]

HeaderWrite(v) == [op |-> "setHeader", arg |-> <<"Content-Type", v>>, code |-> 0]

StatusWrite(c) == [op |-> "status", arg |-> <<>>, code |-> c]

SendWrite(b) == [op |-> "send", arg |-> b, code |-> 0]

\* lines 214-215
OkResponse(body) ==
    <<HeaderWrite("text/html; charset=utf-8"), StatusWrite(200), SendWrite(body)>>

\* lines 217-218 sending the message alone
ErrorResponseNoPrefix(msg) ==
    <<HeaderWrite("text/plain; charset=utf-8"), StatusWrite(500), SendWrite(msg)>>

\* lines 217-218 with the status written before the header
ErrorResponseStatusFirst(msg) ==
    <<StatusWrite(500), HeaderWrite("text/plain; charset=utf-8"),
      SendWrite(<<"Error: ">> \o msg)>>

\* lines 217-218
ErrorResponse(msg) ==
    <<HeaderWrite("text/plain; charset=utf-8"), StatusWrite(500),
      SendWrite(<<"Error: ">> \o msg)>>

NoError == [failed |-> FALSE, msg |-> <<>>]

NoParse == [ok |-> FALSE, script |-> <<>>, template |-> <<>>, msg |-> <<>>]

NoData == [has |-> FALSE, val |-> EmptyExports]

\* no promise of the request has settled yet
Pending == [status |-> "pending", exports |-> EmptyExports, msg |-> <<>>]

\* line 67 with a script that keeps the thread while its operation is
\* pending
HoldsThreadWhileAwaiting(o) == pc[o] = "Evaluating"

\* lines 67, 134 and 211: every step of a request ends at an await, which
\* returns control to the event loop, so between two steps no request
\* holds the thread, a request waiting in its script included
HoldsThread(o) == FALSE

\* the event loop runs a continuation of request r
Scheduled(r) == \A o \in Req \ {r} : ~HoldsThread(o)

\* lines 155-157 with a catch that goes on to the render stage
SettleThenRender(r, stages, cause) ==
    /\ err' = [err EXCEPT ![r] =
                 [failed |-> TRUE, msg |-> WrapRenderError(routePath[r], cause)]]
    /\ pc' = [pc EXCEPT ![r] = "Settled"]
    /\ trace' = [trace EXCEPT ![r] = @ \o stages \o <<"Failed", "Rendering">>]

\* renderRoute's catch (lines 155-157): the promise handler awaits rejects
Settle(r, stages, cause) ==
    /\ err' = [err EXCEPT ![r] =
                 [failed |-> TRUE, msg |-> WrapRenderError(routePath[r], cause)]]
    /\ pc' = [pc EXCEPT ![r] = "Settled"]
    /\ trace' = [trace EXCEPT ![r] = @ \o stages \o <<"Failed">>]

\* the script has run up to a suspension or to its end (lines 55-60 and
\* 66): at its end, or when it throws, the promise of the wrapper settles,
\* and executeScript resumes from line 67 in a later job; a script that
\* does not compile makes executeScript reject at once (lines 66 and 71)
ScriptStep(r, run, stages) ==
    /\ exports' = [exports EXCEPT ![r] = run.exports]
    /\ ip' = [ip EXCEPT ![r] = run.ip]
    /\ trace' = [trace EXCEPT ![r] = @ \o stages]
    /\ CASE run.status = "await" ->
              /\ pc' = [pc EXCEPT ![r] = "Evaluating"]
              /\ UNCHANGED settled
         [] run.status = "syntax" ->
              /\ pc' = [pc EXCEPT ![r] = "Rejected"]
              /\ settled' = [settled EXCEPT ![r] =
                               [status |-> "rejected", exports |-> EmptyExports,
                                msg |-> WrapScriptError(run.msg)]]
         [] OTHER ->
              /\ pc' = [pc EXCEPT ![r] = "ScriptSettled"]
              /\ settled' = [settled EXCEPT ![r] =
                               [status |-> run.status, exports |-> run.exports,
                                msg |-> run.msg]]
    /\ UNCHANGED <<err, data>>

\* handler, lines 164-211, up to renderRoute's readFile (line 134); when
\* process.cwd() throws (line 132) renderRoute's catch (lines 155-157)
\* rejects in the same job and readFile is not called
HandlerStart(r) ==
    /\ pc[r] = "start"
    /\ Scheduled(r)
    /\ routePath' = [routePath EXCEPT ![r] = ResolveRoute(req[r])]
    /\ IF file[r] = NoCwd
       THEN /\ err' = [err EXCEPT ![r] =
                         [failed |-> TRUE,
                          msg |-> WrapRenderError(ResolveRoute(req[r]),
                                                  CwdErrorMessage)]]
            /\ pc' = [pc EXCEPT ![r] = "Settled"]
            /\ trace' = [trace EXCEPT ![r] = <<"Reading", "Failed">>]
       ELSE /\ pc' = [pc EXCEPT ![r] = "Reading"]
            /\ trace' = [trace EXCEPT ![r] = <<"Reading">>]
            /\ UNCHANGED err
    /\ UNCHANGED <<req, file, parsed, exports, ip, currentPath, res, data,
                   settled>>
    /\ UNCHANGED partialVars

\* readFile settles: lines 134-140, up to the script's first suspension
ReadDone(r) ==
    /\ pc[r] = "Reading"
    /\ Scheduled(r)
    /\ IF ~file[r].exists
       THEN /\ Settle(r, <<>>, ReadErrorMessage(file[r].error, routePath[r]))
            /\ UNCHANGED <<parsed, exports, ip, data, settled>>
       ELSE \E p \in {parseRouteFile(file[r].content)} :
                IF ~p.ok
                THEN /\ Settle(r, <<"Parsing">>, p.msg)
                     /\ UNCHANGED <<parsed, exports, ip, data, settled>>
                ELSE /\ parsed' = [parsed EXCEPT ![r] = p]
                     /\ ScriptStep(r, StartScript(p.script),
                                   <<"Parsing", "Evaluating">>)
    /\ UNCHANGED <<req, file, routePath, currentPath, res>>
    /\ UNCHANGED partialVars

\* the operation the script awaits settles: the script resumes (line 67)
AwaitSettle(r) ==
    /\ pc[r] = "Evaluating"
    /\ Scheduled(r)
    /\ \E resolved \in BOOLEAN :
         IF resolved
         THEN ScriptStep(r, RunFrom(parsed[r].script, ip[r], exports[r]), <<>>)
         ELSE /\ pc' = [pc EXCEPT ![r] = "ScriptSettled"]
              /\ settled' = [settled EXCEPT ![r] =
                               [status |-> "throw", exports |-> exports[r],
                                msg |-> FetchFailedMessage]]
              /\ UNCHANGED <<exports, ip, err, trace, data>>
    /\ UNCHANGED <<req, file, routePath, parsed, currentPath, res>>
    /\ UNCHANGED partialVars

\* executeScript resumes from `await fn(...)`: lines 67-72
ExecuteScriptResume(r) ==
    /\ pc[r] = "ScriptSettled"
    /\ Scheduled(r)
    /\ IF settled[r].status = "throw"
       THEN /\ pc' = [pc EXCEPT ![r] = "Rejected"]
            /\ settled' = [settled EXCEPT ![r] =
                             [status |-> "rejected", exports |-> EmptyExports,
                              msg |-> WrapScriptError(settled[r].msg)]]
       ELSE /\ pc' = [pc EXCEPT ![r] = "Evaluated"]
            /\ settled' = [settled EXCEPT ![r] =
                             [status |-> "resolved",
                              exports |-> ScriptResult(settled[r]),
                              msg |-> <<>>]]
    /\ UNCHANGED <<req, file, routePath, parsed, exports, ip, currentPath, err,
                   trace, res, data>>
    /\ UNCHANGED partialVars

\* executeScript has rejected: renderRoute resumes from line 140 in its
\* catch, lines 155-157
RenderRouteCatch(r) ==
    /\ pc[r] = "Rejected"
    /\ Scheduled(r)
    /\ Settle(r, <<>>, settled[r].msg)
    /\ UNCHANGED <<req, file, routePath, parsed, exports, ip, currentPath, res,
                   data, settled>>
    /\ UNCHANGED partialVars

\* executeScript has returned: renderRoute resumes from line 140, binds
\* data and goes on with lines 144-149
Merge(r) ==
    /\ pc[r] = "Evaluated"
    /\ Scheduled(r)
    /\ currentPath' = [currentPath EXCEPT ![r] = CurrentPath(routePath[r])]
    /\ LET m == MergeData(settled[r].exports, CurrentPath(routePath[r]))
       IN  /\ data' = [data EXCEPT ![r] = [has |-> TRUE, val |-> m.data]]
           /\ IF m.threw
              THEN Settle(r, <<>>, m.msg)
              ELSE /\ pc' = [pc EXCEPT ![r] = "Rendering"]
                   /\ trace' = [trace EXCEPT ![r] = @ \o <<"Rendering">>]
                   /\ UNCHANGED err
    /\ UNCHANGED <<req, file, routePath, parsed, exports, ip, res, settled>>
    /\ UNCHANGED partialVars

\* handler's catch, lines 216-219
HandlerCatch(r) ==
    /\ pc[r] = "Settled"
    /\ Scheduled(r)
    /\ err[r].failed
    /\ res' = [res EXCEPT ![r] = @ \o ErrorResponse(err[r].msg)]
    /\ pc' = [pc EXCEPT ![r] = "Responded"]
    /\ UNCHANGED <<req, file, routePath, parsed, exports, ip, currentPath, err,
                   trace, data, settled>>
    /\ UNCHANGED partialVars


(***************************************************************************)
(* loadPartials, lines 78-113, and renderTemplate, lines 118-124.          *)
(* partialsDir is the environment: whether the directory exists, whether   *)
(* readdir succeeds, and its entries in readdir's order, each with its     *)
(* content and whether readFile succeeds on it.                            *)
(***************************************************************************)
LastDot(name) == Max({0} \cup {i \in 1..Len(name) : name[i] = "."})

\* path.extname: from the last dot on, unless the name has no dot, starts
\* with its only dot, or is ".."
extname(name) ==
    IF LastDot(name) <= 1 \/ name = <<".", ".">> THEN <<>>
    ELSE SubSeq(name, LastDot(name), Len(name))

\* line 90
IsHbsFile(name) == extname(name) = DotHbs \/ extname(name) = DotHtml

RECURSIVE filter(_)
filter(names) ==
    IF names = <<>> THEN <<>>
    ELSE IF IsHbsFile(Head(names)) THEN <<Head(names)>> \o filter(Tail(names))
    ELSE filter(Tail(names))

\* line 97: file.replace(/\.(hbs|html)$/, '')
PartialName(name) ==
    IF endsWith(name, DotHbs) THEN SubSeq(name, 1, Len(name) - Len(DotHbs))
    ELSE IF endsWith(name, DotHtml)
         THEN SubSeq(name, 1, Len(name) - Len(DotHtml))
    ELSE name

RECURSIVE Names(_)
Names(files) ==
    IF files = <<>> THEN <<>> ELSE <<Head(files).name>> \o Names(Tail(files))

Entry(name) ==
    LET i == CHOOSE k \in 1..Len(partialsDir.files) :
                 partialsDir.files[k].name = name
    IN  partialsDir.files[i]

\* lines 93-101 with the flag set after the first registration
LoopDoneAfterFirst(rest) == TRUE

\* lines 93-101: the for loop has registered its last file
LoopDone(rest) == rest = <<>>

\* line 79 without the early return
SkipLoadNever(flag) == FALSE

\* line 79
SkipLoad(flag) == flag

\* lines 102-108 with the error thrown on unless it is ENOENT
LoadErrorRethrown(code) ==
    [propagate |-> code # "ENOENT", warn |-> code # "ENOENT",
     markLoaded |-> TRUE]

\* lines 102-108: the inner catch
LoadError(code) ==
    [propagate |-> FALSE, warn |-> code # "ENOENT", markLoaded |-> TRUE]

ZeroIO == [readdir |-> 0, readFile |-> 0, register |-> 0, error |-> "none"]

NoHtml(template) ==
    [status |-> "none", out |-> <<>>, template |-> template,
     compiled |-> FALSE]

\* the data renderTemplate is called with
CallerData == [EmptyExports EXCEPT !["title"] = Value(<<"Hi">>)]

\* the template each caller renders: one that includes the partial menu for
\* every second caller, one without partials for the others
TemplateOf(c) ==
    IF c % 2 = 0 THEN <<TplMenu>> ELSE <<"<h1>", TplTitle, "</h1>">>

\* Handlebars.registerPartial(name, content)
Register(table, name, content) ==
    [n \in DOMAIN table \cup {name} |->
        IF n = name THEN content ELSE table[n]]

\* renderTemplate is called: lines 120 and 79-88, up to readdir; when
\* process.cwd() throws (line 84) the outer catch (lines 109-112) marks the
\* partials loaded in the same job, readdir is not called and renderTemplate
\* goes on to line 122
CallRenderTemplate(c) ==
    /\ lp[c].pc \in {"idle", "done"}
    /\ lp[c].calls < MaxCalls
    /\ html' = [html EXCEPT ![c] = NoHtml(TemplateOf(c))]
    /\ lpStartedLoaded' = [lpStartedLoaded EXCEPT ![c] = partialsLoaded]
    /\ lpIO' = [lpIO EXCEPT ![c] = ZeroIO]
    /\ lp' = [lp EXCEPT ![c] =
                [pc |-> IF SkipLoad(partialsLoaded) \/ partialsDir.state = "gone"
                        THEN "loaded" ELSE "readdir",
                 todo |-> <<>>, calls |-> lp[c].calls + 1]]
    /\ partialsLoaded' =
          (partialsLoaded
              \/ (~SkipLoad(partialsLoaded) /\ partialsDir.state = "gone"))
    /\ UNCHANGED <<registered, regCount, partialsDir>>
    /\ UNCHANGED pipelineVars

\* the catch of lines 102-108 for an error of readdir or readFile
Caught(c, code) ==
    /\ partialsLoaded' = (LoadError(code).markLoaded \/ partialsLoaded)
    /\ IF LoadError(code).propagate
       THEN /\ lp' = [lp EXCEPT ![c].pc = "done"]
            /\ html' = [html EXCEPT ![c].status = "threw"]
       ELSE /\ lp' = [lp EXCEPT ![c].pc = "loaded"]
            /\ UNCHANGED html

\* readdir settles: lines 88-93, up to the first readFile
ReaddirDone(c) ==
    /\ lp[c].pc = "readdir"
    /\ IF partialsDir.state = "present"
       THEN LET hbsFiles == filter(Names(partialsDir.files))
            IN  /\ lpIO' = [lpIO EXCEPT ![c].readdir = @ + 1]
                /\ IF hbsFiles = <<>>
                   THEN /\ partialsLoaded' = TRUE
                        /\ lp' = [lp EXCEPT ![c].pc = "loaded"]
                   ELSE /\ lp' = [lp EXCEPT ![c].pc = "readFile",
                                            ![c].todo = hbsFiles]
                        /\ UNCHANGED partialsLoaded
                /\ UNCHANGED html
       ELSE LET code == IF partialsDir.state = "absent" THEN "ENOENT"
                        ELSE "EACCES"
            IN  /\ lpIO' = [lpIO EXCEPT ![c].readdir = @ + 1,
                                        ![c].error = code]
                /\ Caught(c, code)
    /\ UNCHANGED <<registered, regCount, partialsDir, lpStartedLoaded>>
    /\ UNCHANGED pipelineVars

\* readFile settles: lines 95-101, up to the next readFile
ReadFileDone(c) ==
    /\ lp[c].pc = "readFile"
    /\ LET name == Head(lp[c].todo)
           rest == Tail(lp[c].todo)
       IN  IF Entry(name).readable
           THEN /\ registered' = Register(registered, PartialName(name),
                                          Entry(name).content)
                /\ regCount' = [regCount EXCEPT ![name] = @ + 1]
                /\ lpIO' = [lpIO EXCEPT ![c].readFile = @ + 1,
                                        ![c].register = @ + 1]
                /\ IF LoopDone(rest)
                   THEN /\ partialsLoaded' = TRUE
                        /\ lp' = [lp EXCEPT ![c].pc = "loaded", ![c].todo = <<>>]
                   ELSE /\ lp' = [lp EXCEPT ![c].todo = rest]
                        /\ UNCHANGED partialsLoaded
                /\ UNCHANGED html
           ELSE /\ lpIO' = [lpIO EXCEPT ![c].readFile = @ + 1,
                                        ![c].error = "EISDIR"]
                /\ Caught(c, "EISDIR")
                /\ UNCHANGED <<registered, regCount>>
    /\ UNCHANGED <<partialsDir, lpStartedLoaded>>
    /\ UNCHANGED pipelineVars

\* loadPartials has returned: lines 122-123
Compile(c) ==
    /\ lp[c].pc = "loaded"
    /\ LET page == Render(html[c].template, CallerData, registered)
       IN  html' = [html EXCEPT ![c] =
                      [status |-> IF page.ok THEN "ok" ELSE "threw",
                       out |-> IF page.ok THEN page.out ELSE page.msg,
                       template |-> html[c].template, compiled |-> TRUE]]
    /\ lp' = [lp EXCEPT ![c].pc = "done"]
    /\ UNCHANGED <<partialsLoaded, registered, regCount, partialsDir,
                   lpStartedLoaded, lpIO>>
    /\ UNCHANGED pipelineVars

(***************************************************************************)
(* Inputs.                                                                 *)
(***************************************************************************)
About == <<"a", "b", "o", "u", "t">>

Index == <<"i", "n", "d", "e", "x">>

SlashAbout == <<"/">> \o About

\* URLs: up to MaxChunks pieces, each a fragment the resolver reacts to
UrlChunks ==
    {<<"/">>, Api, ApiSlash, About, Index, DotHtml, <<"?", "x", "=", "1">>}

RECURSIVE ChunkSeqs(_, _)
ChunkSeqs(chunks, n) ==
    IF n = 0 THEN {<<>>}
    ELSE LET S == ChunkSeqs(chunks, n - 1)
         IN  S \cup {s \o c : s \in S, c \in chunks}

ExampleUrls ==
    {<<"/", "a", "l", "r", "e", "a", "d", "y">> \o DotHtml,
     ApiSlash \o About \o <<"?", "x", "=", "1">>,
     <<"/">> \o About \o DotHtml \o DotHtml}

Urls == ChunkSeqs(UrlChunks, MaxChunks) \cup ExampleUrls

Segments == {<<>>, About, Index, <<"a">> \o DotHtml}

PathArrays ==
    {<<>>} \cup {<<a>> : a \in Segments}
           \cup {<<a, b>> : a \in Segments, b \in Segments}

UrlHints == {NoHint, StringHint(<<>>), StringHint(<<"/">>),
             StringHint(SlashAbout), StringHint(ApiSlash \o Index)}

PathHints == {NoHint, StringHint(About)} \cup {ArrayHint(a) : a \in PathArrays}

Request(path, url) == [path |-> path, url |-> url]

\* every request shape with a rich URL, and every path hint with a few URLs
ReqInputs ==
    {Request(NoHint, StringHint(u)) : u \in Urls}
        \cup {Request(p, u) : p \in PathHints, u \in UrlHints}

\* route files
GoodFile ==
    <<ScriptOpen, StmtTitle, ScriptClose, "\n",
      TemplateOpen, "<h1>", TplTitle, "</h1>", TemplateClose>>

FetchFile ==
    <<ScriptOpen, "\n", StmtTitle, " ", StmtFetch, StmtPath, "\n", ScriptClose,
      TemplateOpen, TplPath, TemplateClose>>

ThrowFile ==
    <<TemplateOpen, "<h1>", TplTitle, "</h1>", TemplateClose,
      ScriptOpen, StmtTitle, StmtThrow, ScriptClose>>

ReturnFile ==
    <<ScriptOpen, StmtTitle, StmtReturn, StmtPath, ScriptClose,
      TemplateOpen, TplTitle, TemplateClose>>

ThrowStringFile ==
    <<ScriptOpen, StmtTitle, StmtThrowString, ScriptClose,
      TemplateOpen, TplTitle, TemplateClose>>

PathOnlyFile ==
    <<ScriptOpen, StmtFetch, StmtPath, ScriptClose,
      TemplateOpen, TplTitle, TplPath, TemplateClose>>

SyntaxFile ==
    <<ScriptOpen, StmtTitle, "<h1>", ScriptClose,
      TemplateOpen, TplTitle, TemplateClose>>

NoTemplateFile == <<ScriptOpen, StmtTitle, ScriptClose, "<h1>", TplTitle>>

BadTemplateFile ==
    <<ScriptOpen, StmtTitle, ScriptClose, TemplateOpen, TplBad, TemplateClose>>

FileInputs ==
    {Missing, NotADirectory, IsADirectory, NoCwd,
     File(GoodFile), File(FetchFile), File(ThrowFile),
     File(ReturnFile), File(ThrowStringFile), File(PathOnlyFile),
     File(SyntaxFile), File(NoTemplateFile), File(BadTemplateFile)}

\* route-file text: every token sequence up to MaxTokens, and two sections
\* in either order, each with or without padding and its end marker
ParseTokens ==
    {<<ScriptOpen>>, <<ScriptClose>>, <<TemplateOpen>>, <<TemplateClose>>,
     <<" ">>, <<StmtTitle>>, <<TplTitle>>}

ScriptBodies ==
    {<<>>, <<StmtTitle>>, <<StmtTitle, " ", StmtFetch, StmtPath>>,
     <<StmtFetch, StmtThrow>>, <<StmtTitle, StmtReturn>>, <<"<h1>">>,
     <<StmtTitle, TplBad>>,
     <<TemplateOpen, TplTitle, TemplateClose>>}

TemplateBodies ==
    {<<>>, <<"<h1>", TplTitle, "</h1>">>, <<"<h1>", " ", TplPath>>, <<TplBad>>,
     <<ScriptOpen, StmtThrow, ScriptClose>>}

Pads == {<<>>, <<"\n", " ">>}

Closers(close) == {<<>>, <<close>>}

ScriptSections ==
    {<<ScriptOpen>> \o w \o b \o w \o c :
        w \in Pads, b \in ScriptBodies, c \in Closers(ScriptClose)}

TemplateSections ==
    {<<TemplateOpen>> \o w \o b \o w \o c :
        w \in Pads, b \in TemplateBodies, c \in Closers(TemplateClose)}

StructuredFiles ==
    {a \o w \o b : a \in ScriptSections, w \in Pads, b \in TemplateSections}
        \cup {b \o w \o a :
                a \in ScriptSections, w \in Pads, b \in TemplateSections}

Contents == ChunkSeqs(ParseTokens, MaxTokens) \cup StructuredFiles

(***************************************************************************)
(* Specifications of the request pipeline.                                 *)
(***************************************************************************)
\* no renderTemplate caller: the partial registry as the module leaves it
InitRegistry ==
    /\ partialsLoaded = FALSE
    /\ registered = <<>>
    /\ regCount = <<>>
    /\ partialsDir = [state |-> "absent", files |-> <<>>]
    /\ lp = [c \in Caller |-> [pc |-> "idle", todo |-> <<>>, calls |-> 0]]
    /\ lpStartedLoaded = [c \in Caller |-> FALSE]
    /\ lpIO = [c \in Caller |-> ZeroIO]
    /\ html = [c \in Caller |-> NoHtml(<<>>)]

InitLocals ==
    /\ routePath = [r \in Req |-> <<>>]
    /\ parsed = [r \in Req |-> NoParse]
    /\ exports = [r \in Req |-> EmptyExports]
    /\ ip = [r \in Req |-> 0]
    /\ currentPath = [r \in Req |-> <<>>]
    /\ err = [r \in Req |-> NoError]
    /\ trace = [r \in Req |-> <<>>]
    /\ res = [r \in Req |-> <<>>]
    /\ data = [r \in Req |-> NoData]
    /\ settled = [r \in Req |-> Pending]

\* NumReqs concurrent requests
Init ==
    /\ \E q \in {Request(NoHint, StringHint(SlashAbout)),
                  Request(ArrayHint(<<Index>>), StringHint(SlashAbout))} :
          req = [r \in Req |-> q]
    /\ file \in [Req -> FileInputs]
    /\ pc = [r \in Req |-> "start"]
    /\ InitLocals
    /\ InitRegistry

Next ==
    \E r \in Req :
        \/ HandlerStart(r)
        \/ ReadDone(r)
        \/ AwaitSettle(r)
        \/ ExecuteScriptResume(r)
        \/ RenderRouteCatch(r)
        \/ Merge(r)
        \/ HandlerCatch(r)

Spec == Init /\ [][Next]_vars

\* the request whose script may wait for ever: nothing obliges the operation
\* awaited at line 67 to settle
Hanger == CHOOSE r \in Req : \A o \in Req : r <= o

\* concurrent requests for one route, one of whose scripts may hang
InitLive ==
    /\ req = [r \in Req |-> Request(NoHint, StringHint(SlashAbout))]
    /\ file \in [Req -> {Missing, File(GoodFile), File(PathOnlyFile),
                         File(ThrowFile)}]
    /\ pc = [r \in Req |-> "start"]
    /\ InitLocals
    /\ InitRegistry

\* the event loop runs every continuation that is ready, every readFile of
\* line 134 settles, and so does every operation a script awaits except
\* those of the hanging request
Fairness ==
    /\ \A r \in Req :
          /\ WF_vars(HandlerStart(r))
          /\ WF_vars(ReadDone(r))
          /\ WF_vars(ExecuteScriptResume(r))
          /\ WF_vars(RenderRouteCatch(r))
          /\ WF_vars(Merge(r))
          /\ WF_vars(HandlerCatch(r))
    /\ \A r \in Req \ {Hanger} : WF_vars(AwaitSettle(r))

SpecLive == InitLive /\ [][Next]_vars /\ Fairness

\* one request, every request shape
InitPath ==
    /\ \E q \in ReqInputs : req = [r \in Req |-> q]
    /\ \E f \in {File(GoodFile), File(FetchFile)} : file = [r \in Req |-> f]
    /\ pc = [r \in Req |-> IF r = 1 THEN "start" ELSE "idle"]
    /\ InitLocals
    /\ InitRegistry

SpecPath == InitPath /\ [][Next]_vars

\* one request, every route-file text
InitParse ==
    /\ req = [r \in Req |-> Request(NoHint, StringHint(SlashAbout))]
    /\ \E c \in Contents : file = [r \in Req |-> File(c)]
    /\ pc = [r \in Req |-> IF r = 1 THEN "start" ELSE "idle"]
    /\ InitLocals
    /\ InitRegistry

SpecParse == InitParse /\ [][Next]_vars


(***************************************************************************)
(* Specification of renderTemplate called by NumCallers concurrent         *)
(* renders, each up to MaxCalls times, over every partials directory of    *)
(* up to MaxFiles entries.                                                 *)
(***************************************************************************)
MaxFiles == 2

PartialPool ==
    {[name |-> MenuName \o DotHbs, content |-> <<"<nav>", TplTitle, "</nav>">>,
      readable |-> TRUE],
     [name |-> MenuName \o DotHtml, content |-> <<"<ul>">>, readable |-> TRUE],
     [name |-> <<"f", "o", "o", "t">> \o DotHtml, content |-> <<"<footer>">>,
      readable |-> TRUE],
     [name |-> <<"b", "a", "d">> \o DotHbs, content |-> <<>>,
      readable |-> FALSE],
     [name |-> <<"n", "o", "t", "e", "s", ".", "t", "x", "t">>,
      content |-> <<"notes">>, readable |-> TRUE]}

RECURSIVE Listings(_)
Listings(n) ==
    IF n = 0 THEN {<<>>}
    ELSE LET S == Listings(n - 1)
         IN  S \cup {Append(l, f) : l \in S, f \in PartialPool}

Distinct(l) ==
    \A i \in 1..Len(l) : \A j \in 1..Len(l) : i # j => l[i].name # l[j].name

PartialsDirs ==
    {[state |-> "absent", files |-> <<>>],
     [state |-> "unreadable", files |-> <<>>],
     [state |-> "gone", files |-> <<>>]}
        \cup {[state |-> "present", files |-> l] :
                l \in {x \in Listings(MaxFiles) : Distinct(x)}}

InitPartials ==
    /\ req = [r \in Req |-> Request(NoHint, NoHint)]
    /\ file = [r \in Req |-> Missing]
    /\ pc = [r \in Req |-> "idle"]
    /\ InitLocals
    /\ partialsDir \in PartialsDirs
    /\ partialsLoaded = FALSE
    /\ registered = <<>>
    /\ regCount = [n \in {partialsDir.files[i].name :
                            i \in 1..Len(partialsDir.files)} |-> 0]
    /\ lp = [c \in Caller |-> [pc |-> "idle", todo |-> <<>>, calls |-> 0]]
    /\ lpStartedLoaded = [c \in Caller |-> FALSE]
    /\ lpIO = [c \in Caller |-> ZeroIO]
    /\ html = [c \in Caller |-> NoHtml(<<>>)]

NextPartials ==
    \E c \in Caller :
        \/ CallRenderTemplate(c)
        \/ ReaddirDone(c)
        \/ ReadFileDone(c)
        \/ Compile(c)

SpecPartials == InitPartials /\ [][NextPartials]_vars

(***************************************************************************)
(* Claims about the request pipeline.                                      *)
(***************************************************************************)
Responded(r) == pc[r] = "Responded"

PlainHeader ==
    [op |-> "setHeader", arg |-> <<"Content-Type", "text/plain; charset=utf-8">>,
     code |-> 0]

Wrote200(r) == \E i \in 1..Len(res[r]) : res[r][i].code = 200

\* the page the template gives for what the script exported
ExpectedPage(r) ==
    Render(parsed[r].template,
           Spread(data[r].val, CurrentPath(routePath[r])), registered)

\* C1: a request whose route file exists and has both sections, whose script
\* completes without throwing and whose template renders, is answered with
\* content-type text/html; charset=utf-8, status 200 and the rendered page.
C1_SuccessWrites200 ==
    \A r \in Req :
        (Responded(r) /\ file[r].exists /\ parsed[r].ok /\ data[r].has
            /\ ExpectedPage(r).ok)
        => res[r] = OkResponse(ExpectedPage(r).out)

\* the file the route path names, for a route path of plain segments
RouteFile(r) ==
    <<"/", "a", "p", "p", "/", "r", "o", "u", "t", "e", "s", "/">>
        \o routePath[r]

\* the message of the failed read of a request
ReadFailure(r) ==
    CASE file[r].error = "ENOTDIR" ->
            <<"ENOTDIR: not a directory, open '">> \o RouteFile(r) \o <<"'">>
      [] file[r].error = "EISDIR" ->
            <<"EISDIR: illegal operation on a directory, read">>
      [] file[r].error = "uv_cwd" ->
            <<"ENOENT: no such file or directory, uv_cwd">>
      [] OTHER ->
            <<"ENOENT: no such file or directory, open '">> \o RouteFile(r)
                \o <<"'">>

\* C2: a request in which a stage failed is answered with content-type
\* text/plain; charset=utf-8, status 500 and the body "Error: " followed by
\* the failure's message, and no 200 is written for it.
C2_FailureWrites500 ==
    \A r \in Req :
        /\ (pc[r] = "Settled" /\ err[r].failed) => res[r] = <<>>
        /\ (Responded(r) /\ err[r].failed) =>
              /\ res[r] = <<PlainHeader,
                            [op |-> "status", arg |-> <<>>, code |-> 500],
                            [op |-> "send", arg |-> <<"Error: ">> \o err[r].msg,
                             code |-> 0]>>
              /\ ~Wrote200(r)
        /\ (Responded(r) /\ ~file[r].exists) =>
              /\ err[r].failed
              /\ err[r].msg = <<"Failed to render route ">> \o routePath[r]
                                \o <<": ">> \o ReadFailure(r)
        /\ (Responded(r) /\ file[r].exists /\ ~parsed[r].ok) =>
              /\ err[r].failed
              /\ err[r].msg = <<"Failed to render route ">> \o routePath[r]
                                \o <<": ">> \o MalformedMessage
        /\ (Responded(r) /\ parsed[r].ok /\ ~data[r].has) =>
              /\ err[r].failed
              /\ SubSeq(err[r].msg, 1, Len(routePath[r]) + 3)
                     = <<"Failed to render route ">> \o routePath[r]
                         \o <<": ", "Error executing script: ">>

C2_Witness ==
    /\ \E r \in Req : Responded(r) /\ ~file[r].exists
    /\ \E r \in Req : Responded(r) /\ parsed[r].ok /\ ~data[r].has

\* the text before the first "?" of u
BeforeQuery(u) ==
    LET n == CHOOSE k \in 0..Len(u) :
                 /\ \A i \in 1..k : u[i] # "?"
                 /\ k = Len(u) \/ u[k + 1] = "?"
    IN  SubSeq(u, 1, n)

HasHtmlSuffix(p) ==
    /\ Len(p) >= 5
    /\ <<p[Len(p) - 4], p[Len(p) - 3], p[Len(p) - 2], p[Len(p) - 1], p[Len(p)]>>
           = <<".", "h", "t", "m", "l">>

WithoutMount(p) ==
    IF p = <<"/", "a", "p", "i">> THEN <<>>
    ELSE IF Len(p) >= 5 /\ SubSeq(p, 1, 5) = <<"/", "a", "p", "i", "/">>
         THEN SubSeq(p, 6, Len(p))
    ELSE p

WithoutLeadingSlash(p) == IF p # <<>> /\ p[1] = "/" THEN Tail(p) ELSE p

RouteFileName(p) ==
    IF p = <<>> THEN <<"i", "n", "d", "e", "x", ".", "h", "t", "m", "l">>
    ELSE IF HasHtmlSuffix(p) THEN p
    ELSE p \o <<".", "h", "t", "m", "l">>

Resolved(r) == pc[r] \notin {"idle", "start"}

GivenAsUrl(r) == req[r].path.kind # "array" /\ req[r].url.kind = "string"

\* C6: for a request given as a URL string the route-file name is the URL
\* without its query, without the /api mount prefix and without a leading
\* slash, index.html if that is empty, and with .html appended only if it
\* does not end in .html already; so /about and /api/about?x=1 give
\* about.html and /already.html gives already.html.
C6_UrlResolution ==
    \A r \in Req :
        (Resolved(r) /\ GivenAsUrl(r)) =>
            LET stripped == WithoutLeadingSlash(
                                WithoutMount(BeforeQuery(req[r].url.chars)))
            IN  /\ routePath[r] = RouteFileName(stripped)
                /\ HasHtmlSuffix(routePath[r])
                /\ HasHtmlSuffix(stripped) => routePath[r] = stripped
                /\ req[r].url.chars = <<"/", "a", "b", "o", "u", "t">>
                     => routePath[r] = About \o DotHtml
                /\ req[r].url.chars
                     = <<"/", "a", "p", "i", "/", "a", "b", "o", "u", "t",
                         "?", "x", "=", "1">>
                     => routePath[r] = About \o DotHtml
                /\ req[r].url.chars
                     = <<"/", "a", "l", "r", "e", "a", "d", "y",
                         ".", "h", "t", "m", "l">>
                     => routePath[r]
                          = <<"a", "l", "r", "e", "a", "d", "y",
                              ".", "h", "t", "m", "l">>

C6_Witness ==
    \E r \in Req :
        /\ Resolved(r)
        /\ GivenAsUrl(r)
        /\ req[r].url.chars
             = <<"/", "a", "p", "i", "/", "a", "b", "o", "u", "t",
                 "?", "x", "=", "1">>
        /\ routePath[r] = About \o DotHtml

RECURSIVE SlashJoined(_)
SlashJoined(segs) ==
    IF segs = <<>> THEN <<>>
    ELSE LET front == SubSeq(segs, 1, Len(segs) - 1)
         IN  IF front = <<>> THEN segs[Len(segs)]
             ELSE SlashJoined(front) \o <<"/">> \o segs[Len(segs)]

GivenAsArray(r) == req[r].path.kind = "array"

\* C7 as stated: whenever req.query.path is an array the route is its
\* segments joined with "/" (index.html if that is empty, .html appended if
\* missing), whatever req.url holds; an empty array gives index.html.
C7_ArrayDecidesRoute ==
    \A r \in Req :
        (Resolved(r) /\ GivenAsArray(r)) =>
            routePath[r] = RouteFileName(SlashJoined(req[r].path.segs))

\* C7 as amended: a non-empty array decides the route, whatever req.url
\* holds; an empty array is passed over and the route comes from req.url as
\* for a request without an array, index.html when req.url is absent or empty.
C7_NonEmptyArrayDecidesRoute ==
    \A r \in Req :
        (Resolved(r) /\ GivenAsArray(r)) =>
            IF req[r].path.segs # <<>>
            THEN routePath[r] = RouteFileName(SlashJoined(req[r].path.segs))
            ELSE IF req[r].url.kind = "string"
            THEN routePath[r]
                   = RouteFileName(WithoutLeadingSlash(
                         WithoutMount(BeforeQuery(req[r].url.chars))))
            ELSE routePath[r] = IndexHtml

C7_Witness ==
    \E r \in Req :
        /\ Resolved(r)
        /\ req[r].path = ArrayHint(<<Index, About>>)
        /\ req[r].url = StringHint(SlashAbout)
        /\ routePath[r] = Index \o <<"/">> \o About \o DotHtml

\* C8: the currentPath computed for a route path starts with "/", has no
\* .html suffix, and is "/" for index.html.
C8_CurrentPathCanonical ==
    \A r \in Req :
        currentPath[r] # <<>> =>
            /\ currentPath[r][1] = "/"
            /\ ~HasHtmlSuffix(currentPath[r])
            /\ routePath[r] = IndexHtml => currentPath[r] = <<"/">>
            /\ routePath[r] = About \o DotHtml => currentPath[r] = SlashAbout

HasPair(c, open, close) ==
    \E i \in 1..Len(c) : \E j \in 1..Len(c) :
        i < j /\ c[i] = open /\ c[j] = close

LacksSection(c) ==
    \/ ~HasPair(c, "<script>", "</script>")
    \/ ~HasPair(c, "<template>", "</template>")

Read(r) == pc[r] \notin {"idle", "start", "Reading"}

Entered(r, stage) == \E i \in 1..Len(trace[r]) : trace[r][i] = stage

\* C9: for a route file that lacks a script marker pair or a template
\* marker pair parseRouteFile throws, no fragments are returned, the script
\* is never evaluated and the template is never rendered.
C9_MalformedNeverEvaluated ==
    \A r \in Req :
        (Read(r) /\ file[r].exists /\ LacksSection(file[r].content)) =>
            /\ parsed[r] = NoParse
            /\ ~Entered(r, "Evaluating")
            /\ ~Entered(r, "Rendering")
            /\ exports[r] = EmptyExports
            /\ ~data[r].has
            /\ err[r].failed
            /\ err[r].msg
                 = <<"Failed to render route ">> \o routePath[r] \o
                   <<": ",
                     "Route file must contain both <script> and <template> sections">>

C9_Witness ==
    \E r \in Req :
        /\ Responded(r)
        /\ HasPair(file[r].content, "<script>", "</script>")
        /\ ~HasPair(file[r].content, "<template>", "</template>")
        /\ \E i \in 1..Len(file[r].content) :
              file[r].content[i] = "<template>"

\* s is t without its leading and trailing white space
IsTrimOf(s, t) ==
    \E a \in 1..(Len(t) + 1) : \E b \in 0..Len(t) :
        /\ s = SubSeq(t, a, b)
        /\ \A k \in 1..(a - 1) : t[k] \in {" ", "\n"}
        /\ \A k \in (b + 1)..Len(t) : t[k] \in {" ", "\n"}
        /\ s # <<>> => (s[1] \notin {" ", "\n"} /\ s[Len(s)] \notin {" ", "\n"})
        /\ s = <<>> => \A k \in 1..Len(t) : t[k] \in {" ", "\n"}

\* s is the trimmed text between the first open marker of c and the first
\* close marker after it
IsSectionOf(s, c, open, close) ==
    \E i \in 1..Len(c) : \E j \in 1..Len(c) :
        /\ i < j
        /\ c[i] = open
        /\ \A k \in 1..(i - 1) : c[k] # open
        /\ c[j] = close
        /\ \A k \in (i + 1)..(j - 1) : c[k] # close
        /\ IsTrimOf(s, SubSeq(c, i + 1, j - 1))

Holds(x, marker) == \E i \in 1..Len(x) : x[i] = marker

\* x is one whole script section and nothing of a template section
ScriptPart(x) ==
    /\ HasPair(x, "<script>", "</script>")
    /\ ~Holds(x, "<template>")
    /\ ~Holds(x, "</template>")

TemplatePart(x) ==
    /\ HasPair(x, "<template>", "</template>")
    /\ ~Holds(x, "<script>")
    /\ ~Holds(x, "</script>")

\* the files c is two sections of, with the sections in the other order
Swapped(c) ==
    {SubSeq(c, k + 1, Len(c)) \o SubSeq(c, 1, k) : k \in
        {n \in 1..Len(c) :
            \/ ScriptPart(SubSeq(c, 1, n)) /\ TemplatePart(SubSeq(c, n + 1, Len(c)))
            \/ TemplatePart(SubSeq(c, 1, n)) /\ ScriptPart(SubSeq(c, n + 1, Len(c)))}}

\* C10 as stated: for a well-formed route file, in either section order,
\* parseRouteFile returns a non-empty script and a non-empty template, each
\* the trimmed text between its markers.
C10_NonEmptyFragments ==
    \A r \in Req :
        (Read(r) /\ file[r].exists /\ ~LacksSection(file[r].content)) =>
            /\ parsed[r].ok
            /\ parsed[r].script # <<>>
            /\ parsed[r].template # <<>>
            /\ IsSectionOf(parsed[r].script, file[r].content,
                           "<script>", "</script>")
            /\ IsSectionOf(parsed[r].template, file[r].content,
                           "<template>", "</template>")

\* C10 as amended: for a route file with both marker pairs, in either
\* section order, parseRouteFile returns as script the trimmed text between
\* the first script start marker and the first script end marker after it,
\* and as template the same for the template markers; either is empty when
\* its section holds nothing but white space.
C10_TrimmedFragments ==
    \A r \in Req :
        (Read(r) /\ file[r].exists /\ ~LacksSection(file[r].content)) =>
            /\ parsed[r].ok
            /\ IsSectionOf(parsed[r].script, file[r].content,
                           "<script>", "</script>")
            /\ IsSectionOf(parsed[r].template, file[r].content,
                           "<template>", "</template>")
            /\ \A c \in Swapped(file[r].content) :
                  /\ parseRouteFile(c).script = parsed[r].script
                  /\ parseRouteFile(c).template = parsed[r].template

C10_Witness ==
    /\ \E r \in Req :
         /\ Read(r)
         /\ parsed[r].ok
         /\ file[r].content[1] = "<template>"
         /\ parsed[r].script = <<StmtTitle, " ", StmtFetch, StmtPath>>
         /\ parsed[r].template = <<"<h1>", " ", TplPath>>
         /\ Swapped(file[r].content) # {}


(***************************************************************************)
(* Claims about the partial registry.                                      *)
(***************************************************************************)
\* C3: when several renders call loadPartials before any of them has
\* completed, each partial file is registered with the engine once in total.
C3_RegisteredOnce == \A n \in DOMAIN regCount : regCount[n] <= 1

StartsCall(c) == lp'[c].calls = lp[c].calls + 1

\* C4: partialsLoaded, once true, stays true; a loadPartials call that
\* starts while it is true returns at once, leaves the registered partials
\* as they are, and never reads the directory, reads a file or registers a
\* partial, whatever the first load met.
C4_LoadedIsFinal ==
    [][/\ partialsLoaded => partialsLoaded'
       /\ \A c \in Caller :
             (StartsCall(c) /\ partialsLoaded) =>
                 /\ registered' = registered
                 /\ regCount' = regCount
                 /\ lp'[c].pc = "loaded"
       /\ \A c \in Caller :
             (lpStartedLoaded'[c] /\ lp'[c].pc # "idle") =>
                 /\ lpIO'[c] = ZeroIO
                 /\ lp'[c].pc \in {"loaded", "done"}]_vars

C4_Witness ==
    \E c \in Caller :
        /\ lpStartedLoaded[c]
        /\ lp[c].pc = "done"
        /\ partialsDir.state = "unreadable"
        /\ \E e \in Caller : lpIO[e].error = "EACCES"

\* C5: whatever partial loading meets (directory absent, readdir failing,
\* a file read failing), loadPartials returns normally with partialsLoaded
\* true and the render goes on to compile and render its template.
C5_LoadFailureNotPropagated ==
    \A c \in Caller :
        /\ lpIO[c].error # "none" =>
              /\ partialsLoaded
              /\ lp[c].pc \in {"loaded", "done"}
        /\ lp[c].pc \in {"loaded", "done"} => partialsLoaded
        /\ lp[c].pc = "done" =>
              /\ html[c].compiled
              /\ html[c].status \in {"ok", "threw"}
              /\ (html[c].template = <<"<h1>", TplTitle, "</h1>">>)
                    => (html[c].status = "ok"
                          /\ html[c].out = <<"<h1>", "Hi", "</h1>">>)

C5_Witness ==
    /\ \E c \in Caller :
         /\ lpIO[c].error = "EISDIR"
         /\ lpIO[c].register > 0
         /\ lp[c].pc = "done"
         /\ html[c].status = "ok"

(***************************************************************************)
(* Claims about script evaluation and the render data.                     *)
(***************************************************************************)
\* C11: when the script completes without throwing, executeScript returns
\* the final state of exports: exactly the fields the script assigned, and
\* the empty record only when it assigned nothing, for any script body,
\* one that finishes early included.
C11_ReturnsAssignedFields ==
    \A r \in Req : data[r].has => data[r].val = exports[r]

ScriptFailed(r) == parsed[r].ok /\ err[r].failed /\ ~data[r].has

\* what the script of a route file raises when it fails
Raised(content) ==
    CASE content = ThrowFile -> <<"boom">>
      [] content = ThrowStringFile -> <<"plain">>
      [] content = SyntaxFile -> <<"Unexpected token '<'">>
      [] content \in {FetchFile, PathOnlyFile} -> <<"fetch failed">>
      [] OTHER -> <<>>

Mentions(r, piece) ==
    \E i \in 1..Len(res[r]) : \E j \in 1..Len(res[r][i].arg) :
        res[r][i].arg[j] = piece

\* C12: when the script throws, does not compile or has an awaited operation
\* rejected, executeScript fails with an error that carries the message of
\* the original failure and returns no data, and no field assigned before
\* the failure reaches the response.
C12_FailureCarriesMessage ==
    \A r \in Req :
        ScriptFailed(r) =>
            /\ err[r].msg = <<"Failed to render route ">> \o routePath[r]
                              \o <<": ", "Error executing script: ">>
                              \o Raised(file[r].content)
            /\ ~Mentions(r, "Hi")
            /\ ~Mentions(r, "/mine")

Merged(r) == currentPath[r] # <<>>

\* C13: in the data passed on to the template currentPath is the value
\* derived from the route path, also when the script assigned its own
\* exports.currentPath, and every other exported field is unchanged.
C13_CurrentPathOverrides ==
    \A r \in Req :
        Merged(r) =>
            /\ data[r].val["currentPath"]
                   = [set |-> TRUE, val |-> CurrentPath(routePath[r])]
            /\ data[r].val["title"] = exports[r]["title"]

SameRender(r1, r2) ==
    /\ r1 # r2
    /\ req[r1] = req[r2]
    /\ file[r1] = file[r2]
    /\ Responded(r1) /\ Responded(r2)

\* C14: two renders of the same route file, one after the other or
\* concurrently, give the same outcome when the script has no side effects:
\* the same HTML both times.
C14_SameHtmlTwice ==
    \A r1 \in Req : \A r2 \in Req :
        (SameRender(r1, r2) /\ data[r1].has /\ data[r2].has
            /\ ExpectedPage(r1).ok)
        => /\ res[r1] = res[r2]
           /\ res[r1][3] = [op |-> "send", arg |-> ExpectedPage(r1).out,
                            code |-> 0]

StageOrder == <<"Reading", "Parsing", "Evaluating", "Rendering", "Done">>

IsPrefix(s, t) == Len(s) <= Len(t) /\ SubSeq(t, 1, Len(s)) = s

\* the stages a request entered before it failed, if it did
StagesRun(r) ==
    IF Entered(r, "Failed") THEN SubSeq(trace[r], 1, Len(trace[r]) - 1)
    ELSE trace[r]

\* C15: within one request the stages are entered in the order Reading,
\* Parsing, Evaluating, Rendering, Done; a failure moves the request to
\* Failed with no later stage run, and the error renderRoute raises is
\* "Failed to render route <path>: <cause>".
C15_StagesInOrder ==
    \A r \in Req :
        /\ IsPrefix(StagesRun(r), StageOrder)
        /\ \A i \in 1..Len(trace[r]) :
              trace[r][i] = "Failed" => i = Len(trace[r])
        /\ err[r].failed <=> Entered(r, "Failed")
        /\ (Entered(r, "Failed") /\ ~Entered(r, "Evaluating")) =>
              /\ exports[r] = [f \in {"title", "currentPath"} |->
                                  [set |-> FALSE, val |-> <<>>]]
              /\ ~data[r].has
        /\ err[r].failed =>
              /\ Len(err[r].msg) > Len(routePath[r]) + 2
              /\ SubSeq(err[r].msg, 1, Len(routePath[r]) + 2)
                     = <<"Failed to render route ">> \o routePath[r] \o <<": ">>
        /\ trace[r] = <<"Reading", "Failed">> =>
              err[r].msg = <<"Failed to render route ">> \o routePath[r]
                  \o <<": ">> \o ReadFailure(r)
        /\ trace[r] = <<"Reading", "Parsing", "Failed">> =>
              err[r].msg = <<"Failed to render route ">> \o routePath[r]
                  \o <<": ">> \o MalformedMessage

C15_Witness ==
    /\ \E r \in Req : trace[r] = <<"Reading", "Parsing", "Failed">>
    /\ \E r \in Req :
          /\ trace[r] = <<"Reading", "Parsing", "Evaluating", "Failed">>
          /\ Responded(r)

(***************************************************************************)
(* Claims about renders that share the partial registry.                   *)
(***************************************************************************)
TemplateLike(name) ==
    \/ (Len(name) > 4 /\ SubSeq(name, Len(name) - 3, Len(name))
                             = <<".", "h", "b", "s">>)
    \/ HasHtmlSuffix(name)

WithoutExtension(name) ==
    IF HasHtmlSuffix(name) THEN SubSeq(name, 1, Len(name) - 5)
    ELSE SubSeq(name, 1, Len(name) - 4)

\* the template-like files of the partials directory
TemplateFiles ==
    {i \in 1..Len(partialsDir.files) : TemplateLike(partialsDir.files[i].name)}

AllPartials ==
    {WithoutExtension(partialsDir.files[i].name) : i \in TemplateFiles}

\* the template-like files listed before the first one that cannot be read
ReadablePrefix ==
    {i \in TemplateFiles :
        \A j \in TemplateFiles : j <= i => partialsDir.files[j].readable}

PartialsBeforeFailure ==
    IF partialsDir.state = "present"
    THEN {WithoutExtension(partialsDir.files[i].name) : i \in ReadablePrefix}
    ELSE {}

PassedLoad(c) == lp[c].pc = "loaded"

\* C16 as stated: whenever a render is about to compile its template, or
\* the registry is marked loaded, the registry holds every template-like
\* file of the partials directory, or nothing when there is no directory
\* to list.
C16_AllOrNothing ==
    (partialsLoaded \/ \E c \in Caller : PassedLoad(c)) =>
        \/ partialsDir.state = "present" /\ DOMAIN registered = AllPartials
        \/ partialsDir.state # "present" /\ DOMAIN registered = {}

\* C16 as amended: whenever a render is about to compile its template, or
\* the registry is marked loaded, the registry holds every template-like
\* file listed before the first one that cannot be read (all of them when
\* every file can be read), and nothing when the directory is absent or
\* cannot be listed.
C16_AllBeforeFailure ==
    (partialsLoaded \/ \E c \in Caller : PassedLoad(c)) =>
        DOMAIN registered = PartialsBeforeFailure

C16_Witness ==
    \E c1 \in Caller : \E c2 \in Caller :
        /\ PassedLoad(c1)
        /\ lp[c2].pc = "readFile"
        /\ DOMAIN registered # {}
        /\ DOMAIN registered # AllPartials

(***************************************************************************)
(* Claims about concurrent requests.                                       *)
(***************************************************************************)
HasToken(content, t) == \E i \in 1..Len(content) : content[i] = t

\* the statement of the model's scripts that assigns the field
AssignmentTo(f) ==
    IF f = "title" THEN "exports.title = 'Hi';"
    ELSE "exports.currentPath = '/mine';"

\* C17: each render evaluates its script on an exports object of its own
\* that starts empty: in every interleaving, the exports and the render data
\* of a request hold no field other than those its own script assigns,
\* whatever the scripts of other or earlier requests assigned.
C17_ExportsNotShared ==
    \A r \in Req : \A f \in {"title", "currentPath"} :
        (exports[r][f].set \/ data[r].val[f].set)
            => HasToken(file[r].content, AssignmentTo(f))

C17_Witness ==
    \E r1 \in Req : \E r2 \in Req :
        /\ exports[r1]["title"].set
        /\ pc[r1] = "Evaluating"
        /\ data[r2].has
        /\ data[r2].val["currentPath"].set
        /\ ~data[r2].val["title"].set

Answered(r) ==
    /\ Responded(r)
    /\ \E i \in 1..Len(res[r]) : res[r][i].code \in {200, 500}

\* C18: a request whose script waits for an operation that never settles
\* stays in Evaluating and blocks no other request: when the event loop is
\* fair and the file reads and awaited operations of the other requests
\* settle, each of them is eventually answered with status 200 or 500.
C18_OthersAnswered == \A r \in Req \ {Hanger} : <>Answered(r)

C18_Witness ==
    /\ pc[Hanger] = "Evaluating"
    /\ res[Hanger] = <<>>
    /\ \A r \in Req \ {Hanger} : Answered(r)
    /\ \E r \in Req \ {Hanger} : Entered(r, "Evaluating")

HeaderFor(code) ==
    IF code = 200 THEN <<"Content-Type", "text/html; charset=utf-8">>
    ELSE <<"Content-Type", "text/plain; charset=utf-8">>

\* C19: for every request handler writes at most one response: one status,
\* 200 or 500, with one body, no 500 after a 200, and the status only after
\* the content-type header of that outcome was set.
C19_OneResponse ==
    \A r \in Req :
        /\ res[r] # <<>> <=> Responded(r)
        /\ res[r] # <<>> =>
              /\ Len(res[r]) = 3
              /\ res[r][1].op = "setHeader"
              /\ res[r][2].op = "status"
              /\ res[r][2].code \in {200, 500}
              /\ res[r][1].arg = HeaderFor(res[r][2].code)
              /\ res[r][3].op = "send"

C19_Witness ==
    \E r1 \in Req : \E r2 \in Req :
        /\ Responded(r1)
        /\ res[r1][2].code = 500
        /\ Entered(r1, "Evaluating")
        /\ pc[r2] = "Settled"
        /\ res[r2] = <<>>

=============================================================================
